---- MODULE Spec2Model ----
(***************************************************************************)
(* Model of src/main.js: the session orchestrator `main`, the validator    *)
(* `setup`, the failure capture `takeScreenshot`, the prompt channel       *)
(* `askUser` over the shared readline interface, the readiness             *)
(* synchroniser `waitEntirePageToLoad`, and the process-wide               *)
(* uncaughtException handler.                                              *)
(*                                                                         *)
(* JavaScript values: a string-valued variable is a record                 *)
(* [set, val]; `undefined` and `null` are both the unset record.  A number *)
(* is a record [nan, val].  Strings that are parsed are sequences of       *)
(* one-character strings.                                                  *)
(***************************************************************************)
EXTENDS Integers, Sequences, FiniteSets, TLC

\* Number of askUser calls the automation callback may issue in one run.
MaxAsks == 2

--------------------------------------------------------------------------
\* JavaScript values

Undefined == [set |-> FALSE, val |-> ""]

\* undefined where a string of characters is expected
UndefinedChars == [set |-> FALSE, val |-> <<>>]

Chars(s) == [set |-> TRUE, val |-> s]

Str(s) == [set |-> TRUE, val |-> s]

\* JS truthiness of a string-or-undefined value: undefined, null and ""
\* are falsy.
Truthy(v) == v.set /\ v.val # ""

NaN == [nan |-> TRUE, val |-> 0]

Num(n) == [nan |-> FALSE, val |-> n]

\* JS truthiness of a number: NaN and 0 are falsy.
TruthyNum(n) == ~n.nan /\ n.val # 0

DigitChars == <<"0", "1", "2", "3", "4", "5", "6", "7", "8", "9">>

IsDigit(c) == \E d \in 1..10 : DigitChars[d] = c

DigitVal(c) == (CHOOSE d \in 1..10 : DigitChars[d] = c) - 1

RECURSIVE SkipSpaces(_)
SkipSpaces(s) ==
  IF s # <<>> /\ Head(s) = " " THEN SkipSpaces(Tail(s)) ELSE s

\* Value of the longest prefix of digits of s, continuing from acc;
\* seen tells whether a digit was consumed at all.
RECURSIVE ParseDigits(_, _, _)
ParseDigits(s, acc, seen) ==
  IF s # <<>> /\ IsDigit(Head(s))
  THEN ParseDigits(Tail(s), 10 * acc + DigitVal(Head(s)), TRUE)
  ELSE IF seen THEN Num(acc) ELSE NaN

\* parseInt(x, 10).  An undefined argument is first converted to the
\* string "undefined", which has no leading digits.
ParseInt(v) ==
  LET str == IF v.set THEN v.val
             ELSE <<"u", "n", "d", "e", "f", "i", "n", "e", "d">>
      s   == SkipSpaces(str)
      neg == s # <<>> /\ Head(s) = "-"
      body == IF s # <<>> /\ Head(s) \in {"-", "+"} THEN Tail(s) ELSE s
      n   == ParseDigits(body, 0, FALSE)
  IN IF n.nan THEN NaN ELSE IF neg THEN Num(0 - n.val) ELSE n

--------------------------------------------------------------------------
\* Environment inputs of one run (process.env)

DefaultUserAgent == "Mozilla/5.0"

EnvBaseUrl == {Undefined, Str(""), Str("http://site")}

EnvUserAgent == {Undefined, Str(""), Str("agent")}

EnvWait == {UndefinedChars, Chars(<<"0">>), Chars(<<"5">>), Chars(<<"x">>)}

EnvUserDataDir == {Undefined, Str("profile")}

EnvLogsFolder == {Undefined}

EnvScreenshotFolder == {Undefined}

EnvDemoMode == {Undefined, Str("false")}

EnvQuestionTimeout == {UndefinedChars, Chars(<<"0">>), Chars(<<"7">>)}

Env ==
  [BASE_URL : EnvBaseUrl, USER_AGENT : EnvUserAgent,
   DEFAULT_ADDITIONAL_WAIT_TIME_SECONDS : EnvWait,
   USER_DATA_DIR : EnvUserDataDir, LOGS_FOLDER_PATH : EnvLogsFolder,
   SCREENSHOT_FOLDER_PATH : EnvScreenshotFolder, DEMO_MODE : EnvDemoMode,
   QUESTION_TIMEOUT_SECONDS : EnvQuestionTimeout]

--------------------------------------------------------------------------
\* Configuration constants resolved from the environment

DEMO_MODE(e) == ~(e.DEMO_MODE.set /\ e.DEMO_MODE.val = "false")

LOGS_FOLDER_PATH(e) ==
  Str((IF Truthy(e.LOGS_FOLDER_PATH) THEN e.LOGS_FOLDER_PATH.val
       ELSE "data/logs") \o "/")

SCREENSHOT_FOLDER_PATH(e) ==
  Str((IF Truthy(e.SCREENSHOT_FOLDER_PATH) THEN e.SCREENSHOT_FOLDER_PATH.val
       ELSE "data/screenshots") \o "/")

BASE_URL_Unchecked(e) ==
  Str((IF e.BASE_URL.set THEN e.BASE_URL.val ELSE "undefined") \o "/")

BASE_URL(e) ==
  IF Truthy(e.BASE_URL) THEN Str(e.BASE_URL.val \o "/") ELSE Undefined

DEFAULT_ADDITIONAL_WAIT_TIME_SECONDS(e) ==
  LET n == ParseInt(e.DEFAULT_ADDITIONAL_WAIT_TIME_SECONDS)
  IN IF TruthyNum(n) THEN n ELSE Num(3)

QUESTION_TIMEOUT_SECONDS(e) ==
  LET n == ParseInt(e.QUESTION_TIMEOUT_SECONDS)
  IN IF TruthyNum(n) THEN n ELSE Num(30)

USER_AGENT(e) ==
  IF Truthy(e.USER_AGENT) THEN e.USER_AGENT ELSE Str(DefaultUserAgent)

USER_DATA_DIR(e) == e.USER_DATA_DIR

--------------------------------------------------------------------------
\* Validator

NoError == "none"

MkdirError == "mkdir failed"

NotSetError(name) == name \o " environment variable is not set."

\* assertEnvVariableValue: the error it throws, or NoError.
assertEnvVariableValue(truthy, envVariableName, required) ==
  IF ~truthy /\ required THEN NotSetError(envVariableName) ELSE NoError

\* assertFolderPathValue: exists tells whether the folder is already there,
\* mkdirOk whether fs.mkdirSync succeeds when it is called.
assertFolderPathValue(folderPathValue, folderPathName, exists, mkdirOk) ==
  IF ~Truthy(folderPathValue) THEN folderPathName \o " is not set."
  ELSE IF ~exists /\ ~mkdirOk THEN MkdirError
  ELSE NoError

\* First error of a sequence of checks, NoError when all pass.
RECURSIVE FirstError(_)
FirstError(errs) ==
  IF errs = <<>> THEN NoError
  ELSE IF Head(errs) # NoError THEN Head(errs)
  ELSE FirstError(Tail(errs))

\* setup(): the error it throws, or NoError.
setup(e, logsExists, shotsExists, mkdirOk) ==
  FirstError(<<
    assertFolderPathValue(LOGS_FOLDER_PATH(e), "LOGS_FOLDER_PATH",
                          logsExists, mkdirOk),
    assertFolderPathValue(SCREENSHOT_FOLDER_PATH(e), "SCREENSHOT_FOLDER_PATH",
                          shotsExists, mkdirOk),
    assertEnvVariableValue(Truthy(BASE_URL(e)), "BASE_URL", TRUE),
    assertEnvVariableValue(Truthy(USER_AGENT(e)), "USER_AGENT", TRUE),
    assertEnvVariableValue(
      TruthyNum(DEFAULT_ADDITIONAL_WAIT_TIME_SECONDS(e)),
      "DEFAULT_ADDITIONAL_WAIT_TIME_SECONDS", TRUE),
    assertEnvVariableValue(Truthy(USER_DATA_DIR(e)), "USER_DATA_DIR", FALSE)
  >>)

--------------------------------------------------------------------------
\* Screenshot file names

\* Clock readings (new Date()) of the runs explored.
Clocks ==
  {[year |-> 2026, month |-> 11, day |-> 1, hour |-> 2, minute |-> 4,
    second |-> 52, ms |-> 7],
   [year |-> 1999, month |-> 12, day |-> 31, hour |-> 23, minute |-> 59,
    second |-> 59, ms |-> 999]}

\* Labels passed to takeScreenshot: omitted, empty, 'error', 'a.b'.
Prefixes ==
  {UndefinedChars, Chars(<<>>), Chars(<<"e", "r", "r", "o", "r">>),
   Chars(<<"a", ".", "b">>)}

\* The decimal digits of n, zero-padded to width characters.
RECURSIVE Pad(_, _)
Pad(n, width) ==
  IF width = 0 THEN <<>>
  ELSE Append(Pad(n \div 10, width - 1), DigitChars[(n % 10) + 1])

\* Date.prototype.toISOString(): YYYY-MM-DDTHH:mm:ss.sssZ
toISOString(t) ==
  Pad(t.year, 4) \o <<"-">> \o Pad(t.month, 2) \o <<"-">> \o Pad(t.day, 2)
    \o <<"T">> \o Pad(t.hour, 2) \o <<":">> \o Pad(t.minute, 2) \o <<":">>
    \o Pad(t.second, 2) \o <<".">> \o Pad(t.ms, 3) \o <<"Z">>

RECURSIVE replaceFirstColonOrDot(_)
replaceFirstColonOrDot(str) ==
  IF str = <<>> THEN <<>>
  ELSE IF Head(str) \in {":", "."} THEN <<"-">> \o Tail(str)
  ELSE <<Head(str)>> \o replaceFirstColonOrDot(Tail(str))

\* str.replace(/[:.]/g, '-')
RECURSIVE replaceColonsAndDots(_)
replaceColonsAndDots(str) ==
  IF str = <<>> THEN <<>>
  ELSE <<IF Head(str) \in {":", "."} THEN "-" ELSE Head(str)>>
         \o replaceColonsAndDots(Tail(str))

\* takeScreenshot: the file name it builds from DEMO_MODE, the prefix
\* argument (default '') and the clock.
screenshotFileName(demo, prefix, clock) ==
  LET isoDateTime == replaceColonsAndDots(toISOString(clock))
      demoLabel   == IF demo THEN <<"D", "E", "M", "O", "-">> ELSE <<>>
      given       == IF prefix.set THEN prefix.val ELSE <<>>
      label       == IF given # <<>> THEN given \o <<"-">> ELSE given
  IN demoLabel \o label
       \o <<"s", "c", "r", "e", "e", "n", "s", "h", "o", "t", "-">>
       \o isoDateTime \o <<".", "p", "n", "g">>

NoShot ==
  [called |-> FALSE, prefix |-> UndefinedChars,
   clock |-> CHOOSE t \in Clocks : TRUE, fileName |-> <<>>,
   result |-> "none"]

--------------------------------------------------------------------------
\* State

VARIABLES
  env,          \* process.env of this run
  pc,           \* position of main
  setupError,   \* error thrown by setup(), NoError if it returned
  context,      \* main's `context`: "undefined", "persistent", "browser"
  page,         \* main's `page`: "undefined" or "page"
  signals,      \* load states observed by waitEntirePageToLoad, in order
  calls,        \* counters of the calls main makes
  outcome,      \* outcomes of the steps of main
  cb,           \* the automation callback: its state and awaited prompt
  asks,         \* the askUser calls issued so far (1..nAsks)
  nAsks,        \* number of askUser calls issued
  rl,           \* readlineInterface: closed flag, registered question
  handler,      \* uncaughtException handler: errors seen, unhandled main
  shot          \* the last takeScreenshot call: arguments and file name

vars ==
  <<env, pc, setupError, context, page, signals, calls, outcome, cb, asks,
    nAsks, rl, handler, shot>>

Answers == {"", "yes"}

NoAsk ==
  [state |-> "none", userAnswer |-> Undefined, timer |-> "none",
   timeoutMs |-> 0, aborted |-> FALSE, onAbort |-> FALSE, error |-> NoError]

Init ==
  /\ env \in Env
  /\ pc = "start"
  /\ setupError = NoError
  /\ context = "undefined"
  /\ page = "undefined"
  /\ signals = <<>>
  /\ calls = [launch |-> 0, processing |-> 0, takeScreenshot |-> 0,
              rlCloseTeardown |-> 0, pageClose |-> 0, contextClose |-> 0,
              exit |-> 0]
  /\ outcome = [wait |-> "none", waitedMs |-> 0 - 1, processing |-> "none",
                takeScreenshot |-> "none", pageClose |-> "none",
                contextClose |-> "none", logged |-> {}]
  /\ cb = [awaiting |-> 0]
  /\ asks = [i \in 1..MaxAsks |-> NoAsk]
  /\ nAsks = 0
  /\ rl = [closed |-> FALSE, question |-> 0]
  /\ handler = [closes |-> 0, unhandledSeen |-> FALSE, logged |-> {}]
  /\ shot = NoShot

--------------------------------------------------------------------------
\* Helpers

Bump(counter) == [calls EXCEPT ![counter] = @ + 1]

LoadStates_NoNetworkIdle == <<"domcontentloaded", "load">>

LoadStates == <<"domcontentloaded", "load", "networkidle">>

\* takeScreenshot(page, prefix): "ok" when it returns, "raised" when the
\* promise it returns rejects.  With `page` undefined the member access
\* page.screenshot throws a TypeError; otherwise the engine's screenshot
\* either succeeds or rejects, and the rejection is awaited without a try.
takeScreenshot(pg, screenshotOk) ==
  IF pg = "undefined" THEN "raised"
  ELSE IF screenshotOk THEN "ok" ELSE "raised"

\* The label main's catch block passes: 'error'
ErrorPrefix == Chars(<<"e", "r", "r", "o", "r">>)

\* The record of one takeScreenshot call: the file name is built before
\* page.screenshot is reached, whatever the result.
takeScreenshotCall(prefix, clock, res) ==
  [called |-> TRUE, prefix |-> prefix, clock |-> clock,
   fileName |-> screenshotFileName(DEMO_MODE(env), prefix, clock),
   result |-> res]

\* An askUser call is settled once its promise is resolved or rejected.
Settled(i) == asks[i].state \in {"resolved", "rejected"}

\* Nothing runs after process.exit(0).
Alive == pc # "exited"

--------------------------------------------------------------------------
\* main, up to the callback

\* main: `await setup()`
Setup ==
  /\ pc = "start"
  /\ \E logsExists \in BOOLEAN, shotsExists \in BOOLEAN, mkdirOk \in BOOLEAN :
       LET err == setup(env, logsExists, shotsExists, mkdirOk) IN
         /\ setupError' = err
         /\ pc' = IF err = NoError THEN "launch" ELSE "catch"
  /\ UNCHANGED <<env, context, page, signals, calls, outcome, cb, asks,
                 nAsks, rl, handler,
                 shot>>

\* main: launchPersistentContext(USER_DATA_DIR, options) or launch(options)
Launch ==
  /\ pc = "launch"
  /\ calls' = Bump("launch")
  /\ \E ok \in BOOLEAN :
       IF ok
       THEN /\ context' = IF Truthy(USER_DATA_DIR(env)) THEN "persistent"
                          ELSE "browser"
            /\ pc' = "newPage"
       ELSE /\ context' = context
            /\ pc' = "catch"
  /\ UNCHANGED <<env, setupError, page, signals, outcome, cb, asks, nAsks,
                 rl, handler,
                 shot>>

\* main: `page = await context.newPage()`
NewPage ==
  /\ pc = "newPage"
  /\ \E ok \in BOOLEAN :
       IF ok
       THEN page' = "page" /\ pc' = "goto"
       ELSE page' = page /\ pc' = "catch"
  /\ UNCHANGED <<env, setupError, context, signals, calls, outcome, cb, asks,
                 nAsks, rl, handler,
                 shot>>

Goto_NoWait ==
  /\ pc = "goto"
  /\ \E ok \in BOOLEAN :
       IF ok
       THEN calls' = Bump("processing") /\ pc' = "processing"
       ELSE calls' = calls /\ pc' = "catch"
  /\ UNCHANGED <<env, setupError, context, page, signals, outcome, cb, asks,
                 nAsks, rl, handler,
                 shot>>

\* main: `await page.goto(BASE_URL)`
Goto ==
  /\ pc = "goto"
  /\ \E ok \in BOOLEAN : pc' = IF ok THEN "wait" ELSE "catch"
  /\ UNCHANGED <<env, setupError, context, page, signals, calls, outcome, cb,
                 asks, nAsks, rl, handler,
                 shot>>

\* waitEntirePageToLoad: one `await page.waitForLoadState(state)`; a
\* rejection leaves waitEntirePageToLoad and main's try block.
WaitForLoadState ==
  /\ pc = "wait"
  /\ Len(signals) < Len(LoadStates)
  /\ \E ok \in BOOLEAN :
       IF ok
       THEN /\ signals' = Append(signals, LoadStates[Len(signals) + 1])
            /\ UNCHANGED <<pc, outcome>>
       ELSE /\ signals' = signals
            /\ outcome' = [outcome EXCEPT !.wait = "raised"]
            /\ pc' = "catch"
  /\ UNCHANGED <<env, setupError, context, page, calls, cb, asks, nAsks, rl,
                 handler,
                 shot>>

\* waitEntirePageToLoad: `await page.waitForTimeout(1000 * seconds)`; when
\* it returns, main builds utilFunctions and calls processing(page, ...).
WaitForTimeout ==
  /\ pc = "wait"
  /\ Len(signals) = Len(LoadStates)
  /\ \E ok \in BOOLEAN :
       IF ok
       THEN /\ signals' = Append(signals, "timeout")
            /\ outcome' =
                 [outcome EXCEPT
                    !.wait = "ok",
                    !.waitedMs =
                       1000 * DEFAULT_ADDITIONAL_WAIT_TIME_SECONDS(env).val]
            /\ calls' = Bump("processing")
            /\ pc' = "processing"
       ELSE /\ signals' = signals
            /\ outcome' = [outcome EXCEPT !.wait = "raised"]
            /\ calls' = calls
            /\ pc' = "catch"
  /\ UNCHANGED <<env, setupError, context, page, cb, asks, nAsks, rl,
                 handler,
                 shot>>

--------------------------------------------------------------------------
\* The prompt channel (readlineInterface) and askUser

UseAfterClose == "ERR_USE_AFTER_CLOSE"

TimedOutError == "The question timed out..."

\* readline's cancellation of the registered question (the abort listener
\* that question() itself puts on the signal): it clears whichever question
\* callback is registered.
questionCancel(r) == [r EXCEPT !.question = 0]

\* process.on('uncaughtException'): closes the readline interface and logs.
uncaughtException(r) == [r EXCEPT !.closed = TRUE]

\* readlineInterface.close()
rlClose(r) == [r EXCEPT !.closed = TRUE]

timerAborts_Inverted(userAnswer) == Truthy(userAnswer)

\* The timer callback's test `!userAnswer`
timerAborts(userAnswer) == ~Truthy(userAnswer)

\* askUser(question, timeout), called by the callback: a new
\* AbortController with the throwing abort listener, the timer armed, then
\* readlineInterface.question(question, { signal }, cb) inside the promise
\* executor.  question() first puts its own abort listener on the signal;
\* then on a closed interface it either throws (the promise is rejected) or,
\* in runtimes without that check, registers a question nobody can answer;
\* with a question already registered the new one is dropped; otherwise the
\* callback is registered.  The callback either awaits the promise or keeps
\* it and goes on.  The timeout is the default, QUESTION_TIMEOUT_SECONDS.
CbAskUser ==
  /\ pc = "processing"
  /\ cb.awaiting = 0
  /\ nAsks < MaxAsks
  /\ LET i == nAsks + 1 IN
       \E awaited \in BOOLEAN, throws \in BOOLEAN :
         /\ throws => rl.closed
         /\ nAsks' = i
         /\ cb' = [cb EXCEPT !.awaiting = IF awaited THEN i ELSE 0]
         /\ asks' = [asks EXCEPT ![i] =
              [state |-> IF throws THEN "rejected" ELSE "pending",
               userAnswer |-> Undefined,
               timer |-> "armed",
               timeoutMs |-> 1000 * QUESTION_TIMEOUT_SECONDS(env).val,
               aborted |-> FALSE,
               onAbort |-> TRUE,
               error |-> IF throws THEN UseAfterClose ELSE NoError]]
         /\ rl' = IF ~throws /\ rl.question = 0
                  THEN [rl EXCEPT !.question = i]
                  ELSE rl
  /\ UNCHANGED <<env, pc, setupError, context, page, signals, calls, outcome,
                 handler,
                 shot>>

\* The operator enters a line while a question is registered: readline
\* clears the registration and calls the question's callback, which removes
\* readline's abort listener, stores userAnswer and resolves the promise.
Answer ==
  /\ Alive
  /\ ~rl.closed
  /\ rl.question # 0
  /\ \E a \in Answers :
       asks' = [asks EXCEPT ![rl.question].userAnswer = Str(a),
                            ![rl.question].state = "resolved",
                            ![rl.question].onAbort = FALSE]
  /\ rl' = [rl EXCEPT !.question = 0]
  /\ UNCHANGED <<env, pc, setupError, context, page, signals, calls, outcome,
                 cb, nAsks, handler,
                 shot>>

\* The timer of call i fires.  With a falsy userAnswer it aborts the
\* controller: the first abort listener throws, which the event target
\* reports as an uncaught exception, so the uncaughtException handler runs
\* and closes the interface; readline's own abort listener, if still on the
\* signal, cancels the registered question.  Nothing rejects the promise.
TimerFire(i) ==
  /\ Alive
  /\ asks[i].timer = "armed"
  /\ IF timerAborts(asks[i].userAnswer)
     THEN /\ asks' = [asks EXCEPT ![i].timer = "fired", ![i].aborted = TRUE]
          /\ rl' = uncaughtException(
                     IF asks[i].onAbort THEN questionCancel(rl) ELSE rl)
          /\ handler' = [handler EXCEPT !.closes = @ + 1,
                                        !.logged = @ \cup {TimedOutError}]
     ELSE /\ asks' = [asks EXCEPT ![i].timer = "fired"]
          /\ UNCHANGED <<rl, handler>>
  /\ UNCHANGED <<env, pc, setupError, context, page, signals, calls, outcome,
                 cb, nAsks,
                 shot>>

--------------------------------------------------------------------------
\* The automation callback (caller-supplied): any sequence of askUser
\* calls, then a normal return or an error.

\* The awaited askUser call has settled: the callback goes on, or lets the
\* rejection propagate out of processing.
CbResume ==
  /\ pc = "processing"
  /\ cb.awaiting # 0
  /\ Settled(cb.awaiting)
  /\ cb' = [cb EXCEPT !.awaiting = 0]
  /\ \E caught \in BOOLEAN :
       IF asks[cb.awaiting].state = "rejected" /\ ~caught
       THEN /\ outcome' = [outcome EXCEPT !.processing = "raised"]
            /\ pc' = "catch"
       ELSE UNCHANGED <<outcome, pc>>
  /\ UNCHANGED <<env, setupError, context, page, signals, calls, asks, nAsks,
                 rl, handler,
                 shot>>

\* processing returns normally; main logs 'Finishing...' and enters finally.
CbReturn ==
  /\ pc = "processing"
  /\ cb.awaiting = 0
  /\ outcome' = [outcome EXCEPT !.processing = "returned"]
  /\ pc' = "finally"
  /\ UNCHANGED <<env, setupError, context, page, signals, calls, cb, asks,
                 nAsks, rl, handler,
                 shot>>

\* processing raises; main enters its catch block.
CbThrow ==
  /\ pc = "processing"
  /\ cb.awaiting = 0
  /\ outcome' = [outcome EXCEPT !.processing = "raised"]
  /\ pc' = "catch"
  /\ UNCHANGED <<env, setupError, context, page, signals, calls, cb, asks,
                 nAsks, rl, handler,
                 shot>>

--------------------------------------------------------------------------
\* main: catch and finally

\* Errors by the place that raises them, as console.error may log them.
TryError == "error raised in the try block"

CaptureError == "error raised by takeScreenshot"

PageCloseError == "error raised by page.close()"

ContextCloseError == "error raised by context.close()"

\* catch block: console.error of the caught error, then
\* `await takeScreenshot(page, 'error')`.  If that raises, nothing catches
\* or logs it: the error is pending while the finally block runs.
Catch ==
  /\ pc = "catch"
  /\ calls' = Bump("takeScreenshot")
  /\ \E screenshotOk \in BOOLEAN, clock \in Clocks :
       LET res == takeScreenshot(page, screenshotOk) IN
         /\ outcome' = [outcome EXCEPT !.takeScreenshot = res,
                                       !.logged = @ \cup {TryError}]
         /\ shot' = takeScreenshotCall(ErrorPrefix, clock, res)
  /\ pc' = "finally"
  /\ UNCHANGED <<env, setupError, context, page, signals, cb, asks, nAsks,
                 rl, handler>>

\* Where main goes after `await page.close()`: a rejection leaves the
\* finally block at once.
afterPageClose(pageCloseOutcome) ==
  IF pageCloseOutcome = "ok" THEN "closeContext" ELSE "escaped"

\* finally block, first part: readlineInterface.close(), then
\* `await page.close()`.  With `page` undefined the member access throws.
TeardownPage ==
  /\ pc = "finally"
  /\ rl' = rlClose(rl)
  /\ IF page = "undefined"
     THEN /\ calls' = Bump("rlCloseTeardown")
          /\ outcome' = [outcome EXCEPT !.pageClose = "raised"]
          /\ pc' = afterPageClose("raised")
     ELSE \E ok \in BOOLEAN :
            LET res == IF ok THEN "ok" ELSE "raised" IN
              /\ calls' = [calls EXCEPT !.rlCloseTeardown = @ + 1,
                                        !.pageClose = @ + 1]
              /\ outcome' = [outcome EXCEPT !.pageClose = res]
              /\ pc' = afterPageClose(res)
  /\ UNCHANGED <<env, setupError, context, page, signals, cb, asks, nAsks,
                 handler,
                 shot>>

\* finally block, second part: `await context.close()`, the 'Done' log and
\* process.exit(0).
TeardownContext ==
  /\ pc = "closeContext"
  /\ \E ok \in BOOLEAN :
       IF ok
       THEN /\ calls' = [calls EXCEPT !.contextClose = @ + 1, !.exit = @ + 1]
            /\ outcome' = [outcome EXCEPT !.contextClose = "ok"]
            /\ pc' = "exited"
       ELSE /\ calls' = Bump("contextClose")
            /\ outcome' = [outcome EXCEPT !.contextClose = "raised"]
            /\ pc' = "escaped"
  /\ UNCHANGED <<env, setupError, context, page, signals, cb, asks, nAsks,
                 rl, handler,
                 shot>>

\* The error main's promise is rejected with: the one thrown in the
\* finally block, which replaces an error pending from the catch block.
escapedError ==
  IF outcome.pageClose = "raised" THEN PageCloseError ELSE ContextCloseError

\* main's promise was rejected and the caller left the rejection
\* unhandled: the runtime raises it as an uncaught exception and the
\* uncaughtException handler runs.
UnhandledRejection ==
  /\ pc = "escaped"
  /\ ~handler.unhandledSeen
  /\ rl' = uncaughtException(rl)
  /\ handler' = [handler EXCEPT !.closes = @ + 1, !.unhandledSeen = TRUE,
                                !.logged = @ \cup {escapedError}]
  /\ UNCHANGED <<env, pc, setupError, context, page, signals, calls, outcome,
                 cb, asks, nAsks,
                 shot>>

\* takeScreenshot is exported: an importer calls it directly with a page
\* handle (or none) and any label.
TakeScreenshotCall ==
  /\ \E pg \in {"undefined", "page"}, screenshotOk \in BOOLEAN,
        prefix \in Prefixes, clock \in Clocks :
       shot' = takeScreenshotCall(prefix, clock,
                                  takeScreenshot(pg, screenshotOk))
  /\ UNCHANGED <<env, pc, setupError, context, page, signals, calls, outcome,
                 cb, asks, nAsks, rl, handler>>

--------------------------------------------------------------------------
Next ==
  \/ Setup
  \/ Launch
  \/ NewPage
  \/ Goto
  \/ WaitForLoadState
  \/ WaitForTimeout
  \/ CbAskUser
  \/ Answer
  \/ \E i \in 1..MaxAsks : TimerFire(i)
  \/ CbResume
  \/ CbReturn
  \/ CbThrow
  \/ Catch
  \/ TeardownPage
  \/ TeardownContext
  \/ UnhandledRejection

Spec == Init /\ [][Next]_vars

\* The steps of main itself: each engine operation completes or fails.
MainStep ==
  \/ Setup
  \/ Launch
  \/ NewPage
  \/ Goto
  \/ WaitForLoadState
  \/ WaitForTimeout
  \/ Catch
  \/ TeardownPage
  \/ TeardownContext

\* The steps of the callback: it goes on whenever it is not suspended.
CallbackStep == CbAskUser \/ CbResume \/ CbReturn \/ CbThrow

\* The event loop runs main and the callback whenever they can go on, and
\* every armed timer fires; the operator need not answer, and the caller
\* need not leave a rejection unhandled.
Fairness ==
  /\ WF_vars(MainStep)
  /\ WF_vars(CallbackStep)
  /\ \A i \in 1..MaxAsks : WF_vars(TimerFire(i))

\* Runs that leave every setting with a default at its default.
FairInit ==
  /\ Init
  /\ env.USER_AGENT = Undefined
  /\ env.DEFAULT_ADDITIONAL_WAIT_TIME_SECONDS = UndefinedChars
  /\ env.QUESTION_TIMEOUT_SECONDS = UndefinedChars
  /\ env.LOGS_FOLDER_PATH = Undefined
  /\ env.DEMO_MODE = Undefined

FairSpec == FairInit /\ [][Next]_vars /\ Fairness

\* Direct calls of the exported takeScreenshot on a freshly loaded module.
LibrarySpec == Init /\ [][TakeScreenshotCall]_vars

\* main has finished: the process exited, or an error left main.
Ended == pc \in {"exited", "escaped"}

TypeOK ==
  /\ env \in Env
  /\ pc \in {"start", "launch", "newPage", "goto", "wait", "processing",
             "catch", "finally", "closeContext", "exited", "escaped"}
  /\ context \in {"undefined", "persistent", "browser"}
  /\ page \in {"undefined", "page"}
  /\ nAsks \in 0..MaxAsks
  /\ rl.question \in 0..MaxAsks
  /\ cb.awaiting \in 0..MaxAsks

--------------------------------------------------------------------------
\* Properties

\* C1: in every run of main that acquired a browser session, the session is
\* closed exactly once by the time main has finished, whichever way the
\* run went.
C1_SessionClosedOnce ==
  /\ calls.contextClose <= 1
  /\ (Ended /\ context # "undefined") => calls.contextClose = 1

\* C2: when page.close() raises in teardown, context.close() is still
\* called and the failure does not leave main: the run still ends in
\* process.exit(0).
C2_TeardownTotal ==
  (Ended /\ calls.pageClose = 1 /\ outcome.pageClose = "raised")
    => (calls.contextClose = 1 /\ pc = "exited")

\* C3: every run of main that ends, ends in process.exit(0); no error
\* leaves main instead.
C3_AlwaysExitsZero == Ended => (pc = "exited" /\ calls.exit = 1)

RequiredFields ==
  {"BASE_URL", "USER_AGENT", "DEFAULT_ADDITIONAL_WAIT_TIME_SECONDS"}

\* A field is missing when its variable is unset or empty.
Missing(f) ==
  IF f = "DEFAULT_ADDITIONAL_WAIT_TIME_SECONDS"
  THEN ~env[f].set \/ env[f].val = <<>>
  ELSE ~Truthy(env[f])

MissingFields == {f \in RequiredFields : Missing(f)}

\* C4 as stated: once setup has run on an environment that lacks a
\* required field, it has raised an error naming a missing field (or the
\* earlier directory error), and nothing was launched or opened.
C4_MissingFieldRaises ==
  (pc # "start" /\ MissingFields # {})
    => /\ setupError \in {NotSetError(f) : f \in MissingFields}
                           \cup {MkdirError}
       /\ calls.launch = 0
       /\ context = "undefined"
       /\ page = "undefined"

\* C4 amended: once setup has run on an environment whose BASE_URL is
\* missing or empty, it has raised the error naming BASE_URL (or the earlier
\* directory error) and nothing was launched or opened; with BASE_URL
\* present setup raises nothing but a directory error, whether or not
\* USER_AGENT and DEFAULT_ADDITIONAL_WAIT_TIME_SECONDS are present, because
\* these resolve to their defaults.
C4_MissingBaseUrlRaises ==
  pc # "start" =>
    /\ ~Truthy(env.BASE_URL) =>
         /\ setupError \in {NotSetError("BASE_URL"), MkdirError}
         /\ calls.launch = 0
         /\ context = "undefined"
         /\ page = "undefined"
    /\ Truthy(env.BASE_URL) => setupError \in {NoError, MkdirError}

\* A run without BASE_URL in which setup raised the error naming it and
\* main went on to teardown without launching anything.
C4_Witness ==
  /\ pc = "finally"
  /\ ~env.BASE_URL.set
  /\ setupError = NotSetError("BASE_URL")
  /\ calls.launch = 0

\* C5: a finished run whose callback raised made exactly one
\* takeScreenshot call from the catch block, a run whose callback returned
\* made none, and both completed teardown (ended in process.exit(0)).
C5_CaptureOnceThenTeardown ==
  /\ outcome.processing = "returned" => calls.takeScreenshot = 0
  /\ Ended =>
       /\ outcome.processing = "raised" =>
            (calls.takeScreenshot = 1 /\ pc = "exited")
       /\ outcome.processing = "returned" => pc = "exited"

\* C6: the takeScreenshot call of the catch block never raises.
C6_CaptureNeverRaises == outcome.takeScreenshot # "raised"

\* C7: an askUser call that got no answer is pending while its timer is
\* armed and is rejected with the timeout error once the timer has fired.
C7_TimeoutRejects ==
  \A i \in 1..MaxAsks :
    (asks[i].state # "none" /\ ~asks[i].userAnswer.set) =>
      /\ asks[i].timer = "armed" => asks[i].state = "pending"
      /\ asks[i].timer = "fired" =>
           (asks[i].state = "rejected" /\ asks[i].error = TimedOutError)

\* C8: for a call that was resolved with the operator's answer, the firing
\* of its timer aborted nothing.
C8_LateTimerNoEffect ==
  \A i \in 1..MaxAsks :
    (asks[i].state = "resolved" /\ asks[i].timer = "fired")
      => ~asks[i].aborted

\* C9: before teardown, the prompt channel is open even after an unanswered
\* askUser call has timed out.
C9_ChannelOpenAfterTimeout ==
  \A i \in 1..MaxAsks :
    (/\ asks[i].aborted
     /\ ~asks[i].userAnswer.set
     /\ pc \in {"processing", "catch", "finally"})
      => ~rl.closed

\* C10: in a run in which a prompt timer has fired, the prompt channel is
\* closed by nothing but teardown, once.
C10_ChannelClosedOnceByTeardown ==
  (\E i \in 1..MaxAsks : asks[i].timer = "fired") =>
    /\ handler.closes = 0
    /\ calls.rlCloseTeardown <= 1
    /\ Ended => calls.rlCloseTeardown = 1


\* What waitEntirePageToLoad has observed when it returns.
ReadySequence == <<"domcontentloaded", "load", "networkidle", "timeout">>

\* C11: waitEntirePageToLoad observes the load states in the order
\* domcontentloaded, load, networkidle and then the settle wait; it has
\* returned only when all four were observed, and the settle wait lasted
\* the configured number of seconds.
C11_ReadinessOrdering ==
  /\ Len(signals) <= Len(ReadySequence)
  /\ signals = SubSeq(ReadySequence, 1, Len(signals))
  /\ outcome.wait = "ok" =>
       /\ signals = ReadySequence
       /\ outcome.waitedMs =
            1000 * DEFAULT_ADDITIONAL_WAIT_TIME_SECONDS(env).val
       /\ outcome.waitedMs > 0
  /\ outcome.wait # "ok" => outcome.waitedMs < 0

\* waitEntirePageToLoad has returned after all three signals and the wait.
C11_Witness ==
  /\ outcome.wait = "ok"
  /\ signals = ReadySequence
  /\ pc = "processing"

\* C12: processing is called at most once; when it has been called, setup
\* had passed, the session and page exist and the readiness wait had
\* returned; it is called only on leaving the readiness wait, before any
\* teardown step; while it runs and after it ended it was called exactly
\* once.
C12_CallbackOnce ==
  /\ [](/\ calls.processing <= 1
        /\ calls.processing = 1 =>
             /\ setupError = NoError
             /\ calls.launch = 1
             /\ context # "undefined"
             /\ page = "page"
             /\ outcome.wait = "ok"
             /\ signals = ReadySequence
        /\ (pc = "processing" \/ outcome.processing # "none") =>
             calls.processing = 1)
  /\ [][calls'.processing # calls.processing =>
          /\ pc = "wait"
          /\ pc' = "processing"
          /\ calls.rlCloseTeardown = 0
          /\ outcome.processing = "none"]_vars

\* The callback ran once and returned, and teardown has begun.
C12_Witness ==
  /\ calls.processing = 1
  /\ outcome.processing = "returned"
  /\ calls.rlCloseTeardown = 1


\* Position of the first character of the timestamp in a file name built
\* with the given demo flag and label.
StampStart(demo, given) ==
  (IF demo THEN 5 ELSE 0) + (IF given = <<>> THEN 0 ELSE Len(given) + 1)
    + 11 + 1

\* C13: the file name of a takeScreenshot call is 'DEMO-' exactly when
\* DEMO_MODE is on, then the label and '-' exactly when a non-empty label
\* was given, then 'screenshot-', then the 24 characters of the ISO
\* timestamp with ':' and '.' turned into '-' and every other character
\* kept, then '.png'; the timestamp part holds no ':' and no '.'.
C13_ScreenshotName ==
  shot.called =>
    LET demo  == ~(env.DEMO_MODE.set /\ env.DEMO_MODE.val = "false")
        given == IF shot.prefix.set THEN shot.prefix.val ELSE <<>>
        name  == shot.fileName
        iso   == toISOString(shot.clock)
        from  == StampStart(demo, given)
        stamp == SubSeq(name, from, from + 23)
        head  == SubSeq(name, 1, from - 1)
    IN /\ Len(iso) = 24
       /\ Len(name) = from + 23 + 4
       /\ head = (IF demo THEN <<"D", "E", "M", "O", "-">> ELSE <<>>)
                   \o (IF given = <<>> THEN <<>> ELSE given \o <<"-">>)
                   \o <<"s", "c", "r", "e", "e", "n", "s", "h", "o", "t", "-">>
       /\ \A k \in 1..24 :
            /\ stamp[k] \notin {":", "."}
            /\ iso[k] \in {":", "."} => stamp[k] = "-"
            /\ iso[k] \notin {":", "."} => stamp[k] = iso[k]
       /\ SubSeq(name, from + 24, from + 27) = <<".", "p", "n", "g">>

\* A call in demo mode with the label 'error' has built its file name.
C13_Witness ==
  /\ shot.called
  /\ shot.prefix = ErrorPrefix
  /\ ~env.DEMO_MODE.set
  /\ Len(shot.fileName) = 5 + 6 + 11 + 24 + 4


\* C14: a call whose timer has fired while it was still unanswered is never
\* resolved by a later step.
C14_NoResolveAfterTimeout ==
  [][\A i \in 1..MaxAsks :
       (asks[i].timer = "fired" /\ asks[i].state = "pending")
         => asks'[i].state # "resolved"]_vars

\* A call that timed out unanswered: still pending, its question cancelled
\* and the channel closed to further input.
C14_Witness ==
  \E i \in 1..MaxAsks :
    /\ asks[i].timer = "fired"
    /\ asks[i].aborted
    /\ asks[i].state = "pending"
    /\ rl.question = 0
    /\ rl.closed
    /\ pc = "processing"


\* The callback raised and the takeScreenshot call of the catch block
\* raised too.
CaptureFailed ==
  outcome.processing = "raised" /\ outcome.takeScreenshot = "raised"

\* C15: when the callback raised and the capture of the catch block failed,
\* the capture's failure has been logged by the time the catch block is
\* left, and the run ends with the three teardown steps done and
\* process.exit(0), as any failed run.
C15_CaptureFailureContained ==
  /\ (CaptureFailed /\ pc \in {"finally", "closeContext", "exited", "escaped"})
       => CaptureError \in (outcome.logged \cup handler.logged)
  /\ (CaptureFailed /\ Ended)
       => /\ calls.rlCloseTeardown = 1
          /\ calls.pageClose = 1
          /\ calls.contextClose = 1
          /\ pc = "exited"


\* C16: in a run whose readiness wait failed, processing is never called,
\* the catch block logs the error and calls takeScreenshot once, and the
\* run ends with teardown performed: channel, page and session closed and
\* process.exit(0).
C16_ReadinessFailurePath ==
  outcome.wait = "raised" =>
    /\ calls.processing = 0
    /\ outcome.processing = "none"
    /\ pc \notin {"start", "launch", "newPage", "goto", "wait", "processing"}
    /\ pc # "catch" =>
         (calls.takeScreenshot = 1 /\ TryError \in outcome.logged)
    /\ Ended =>
         /\ calls.rlCloseTeardown = 1
         /\ calls.pageClose = 1
         /\ calls.contextClose = 1
         /\ pc = "exited"

\* An askUser call is outstanding from its call until it is answered or
\* its timer fires.
Outstanding(i) == asks[i].state = "pending" /\ asks[i].timer = "armed"

\* C17: at most one askUser call is outstanding at any moment.
C17_OneOutstandingPrompt ==
  Cardinality({i \in 1..MaxAsks : Outstanding(i)}) <= 1


\* C18: under FairSpec every run of main ends: it reaches process.exit(0)
\* or leaves main with an error.
C18_RunTerminates == <>Ended


\* A configured value that is a non-negative decimal integer.
IsNatural(cfg) ==
  cfg.set /\ cfg.val # <<>> /\ \A k \in 1..Len(cfg.val) : IsDigit(cfg.val[k])

RECURSIVE NaturalValue(_)
NaturalValue(digits) ==
  IF digits = <<>> THEN 0
  ELSE 10 * NaturalValue(SubSeq(digits, 1, Len(digits) - 1))
         + DigitVal(digits[Len(digits)])

\* The duration used is the configured one, and is the default only when
\* nothing, or no number, or the default itself was configured.
UsedAsConfigured(cfg, seconds, default) ==
  /\ IsNatural(cfg) => seconds = NaturalValue(cfg.val)
  /\ seconds = default =>
       (~IsNatural(cfg) \/ NaturalValue(cfg.val) = default)

\* C19: the settle wait of waitEntirePageToLoad lasts the configured
\* DEFAULT_ADDITIONAL_WAIT_TIME_SECONDS and the timer of askUser the
\* configured QUESTION_TIMEOUT_SECONDS, for every configured non-negative
\* integer, 0 included; the defaults 3 and 30 are used only when the
\* setting is absent or not a number.
C19_DurationsAsConfigured ==
  /\ outcome.wait = "ok" =>
       UsedAsConfigured(env.DEFAULT_ADDITIONAL_WAIT_TIME_SECONDS,
                        outcome.waitedMs \div 1000, 3)
  /\ \A i \in 1..MaxAsks :
       asks[i].state # "none" =>
         UsedAsConfigured(env.QUESTION_TIMEOUT_SECONDS,
                          asks[i].timeoutMs \div 1000, 30)

====
